---- MODULE Spec2Model ----
(***************************************************************************)
(* Habit scoring engine of loop-Habits (score calculator module).          *)
(*                                                                         *)
(* Representation.                                                         *)
(*  - A JavaScript Date is its instant, in whole hours since the epoch     *)
(*    (UTC).  The local calendar fields are read through the time zone tz  *)
(*    of the environment the code runs in: its standard offset (hours      *)
(*    east of UTC) and, when the zone has one in the year before the call, *)
(*    the civil day on which the clocks go forward one hour at 02:00.      *)
(*  - A 'YYYY-MM-DD' string is the epoch-day number of that civil date;    *)
(*    string order on such strings is the order of the day numbers.        *)
(*  - A score is a fixed-point number in units of 1/MAX_SCORE; every       *)
(*    product is rounded down to a whole unit.                             *)
(*  - An optional field of the habit object is a sequence: << >> when the  *)
(*    field is absent (undefined), << v >> when it holds v.                *)
(***************************************************************************)
EXTENDS Integers, Sequences, FiniteSets, TLC

VARIABLES completedDates, habit, tz, now, days, pc,
          scheduledDays, score, currentStreak, bestStreak,
          total, completionRate, scoreHistory, stats, cached,
          habitsColl, completionsColl, requests,
          state, localDb, calls, toast

vars == << completedDates, habit, tz, now, days, pc,
           scheduledDays, score, currentStreak, bestStreak,
           total, completionRate, scoreHistory, stats, cached,
           habitsColl, completionsColl, requests,
           state, localDb, calls, toast >>

\* the application around the engine: the collections of the backend, the
\* requests it is handling, and the client's memory, database and calls
app == << habitsColl, completionsColl, requests, state, localDb, calls, toast >>

(***************************************************************************)
(* Bounds of the model.                                                    *)
(***************************************************************************)
\* the local calendar day on which the engine is called (2024-01-05, a Friday)
Today == 19727
\* completion dates are drawn from Today - MaxAge .. Today
MaxAge == 4
\* the window argument is drawn from 0 .. MaxLookback
MaxLookback == 4
\* length of the long unbroken run of completions (longer than a year)
LongRun == 400
\* local hour of the day at which the engine is called
NowHour == 9

(***************************************************************************)
(* Constants of the scoring algorithm.                                     *)
(***************************************************************************)
\* 0.052, in thousandths
SCORE_INCREASE == 52
\* 0.035, in thousandths
SCORE_DECREASE == 35
\* 1.0, in score units
MAX_SCORE == 10000000
MIN_SCORE == 0
\* default of daysToAnalyze
DEFAULT_DAYS_TO_ANALYZE == 60
\* default of days in calculateCompletionRate
DEFAULT_RATE_DAYS == 30
\* default of days in calculateScoreHistory
DEFAULT_HISTORY_DAYS == 30
\* "Don't go back more than a year"
MAX_DAYS_BACK == 365

HOURS_PER_DAY == 24

\* (r / 1000) * x, rounded down to a whole score unit
Thousandths(r, x) == (r * x) \div 1000

Min2(a, b) == IF a <= b THEN a ELSE b
Max2(a, b) == IF a >= b THEN a ELSE b

(***************************************************************************)
(* Date.                                                                   *)
(***************************************************************************)
\* the instant at which the clocks of zone z go forward: 02:00 standard time
ChangeInstant(z) == z.change[1] * HOURS_PER_DAY + 2 - z.offset

\* getTimezoneOffset of instant t, in hours east of UTC
OffsetAt(t, z) ==
    IF z.change # << >> /\ t >= ChangeInstant(z) THEN z.offset + 1 ELSE z.offset

\* the offset in force at local hour hh of civil day d
OffsetAtLocal(d, hh, z) ==
    IF z.change # << >> /\ (d > z.change[1] \/ (d = z.change[1] /\ hh >= 3))
    THEN z.offset + 1 ELSE z.offset

\* the instant of local hour hh of civil day d
LocalInstant(d, hh, z) == d * HOURS_PER_DAY + hh - OffsetAtLocal(d, hh, z)

\* the local civil day (epoch-day number) of instant t
LocalDay(t, z) == (t + OffsetAt(t, z)) \div HOURS_PER_DAY

\* date.getHours()
LocalHour(t, z) == (t + OffsetAt(t, z)) % HOURS_PER_DAY

\* formatDate(date): the 'YYYY-MM-DD' string of the local civil day
formatDate(t, z) == LocalDay(t, z)

\* the date left at the time of day it was read at
SetHoursZeroNotTruncated(t, z) == t

\* date.setHours(0, 0, 0, 0): local midnight of the local day of t
SetHoursZero(t, z) == LocalInstant(LocalDay(t, z), 0, z)

\* date.setDate(date.getDate() + k): the same local time, k civil days later
AddDays(t, k, z) == LocalInstant(LocalDay(t, z) + k, LocalHour(t, z), z)

\* the weekday index with 0 = Monday
getDayMondayFirst(t, z) == (LocalDay(t, z) + 3) % 7

\* date.getDay(): 0 = Sunday; epoch day 0 was a Thursday
getDay(t, z) == (LocalDay(t, z) + 4) % 7

\* new Date('YYYY-MM-DD'): a date-only string is read as UTC midnight
NewDateFromDateString(d) == d * HOURS_PER_DAY

\* new Date(habit.createdAt): createdAt is either a date-only string
\* (kind "date", civil day c.day) or a full ISO timestamp (kind "instant",
\* hour c.hour of day c.day, both UTC)
NewDateFromCreatedAt(c) ==
    IF c.kind = "date" THEN NewDateFromDateString(c.day)
    ELSE c.day * HOURS_PER_DAY + c.hour

\* Math.floor((a - b) / (1000 * 60 * 60 * 24))
DaysBetween(a, b) == (a - b) \div HOURS_PER_DAY

\* a % b of JavaScript for a >= 0 and b # 0: the sign is that of a
JsRem(a, b) == IF b > 0 THEN a % b ELSE a % (0 - b)

\* x || dflt for an optional number: undefined and 0 are falsy
OrDefault(x, dflt) == IF x = << >> \/ x = << 0 >> THEN dflt ELSE x[1]

(***************************************************************************)
(* isDayScheduled(date, habit)                                             *)
(***************************************************************************)
IntervalScheduled(date, h, z) ==
    LET interval == OrDefault(h.interval, 2)
        habitStartDate == SetHoursZero(NewDateFromCreatedAt(h.createdAt), z)
        daysSinceStart == DaysBetween(date, habitStartDate)
    IN  daysSinceStart >= 0 /\ JsRem(daysSinceStart, interval) = 0

SpecificDaysScheduled(date, h, z) ==
    LET daysOfWeek == IF h.specificDays = << >> THEN 0..6 ELSE h.specificDays[1]
    IN  getDay(date, z) \in daysOfWeek

\* case 'weekly' without its return: control falls through to case 'interval'
isDayScheduledWeeklyFallsThrough(date, h, z) ==
    LET frequency == IF h.frequency = << >> THEN "daily" ELSE h.frequency[1]
    IN  CASE frequency = "daily" -> TRUE
          [] frequency = "weekly" -> IntervalScheduled(date, h, z)
          [] frequency = "interval" -> IntervalScheduled(date, h, z)
          [] frequency = "specific_days" -> SpecificDaysScheduled(date, h, z)
          [] OTHER -> TRUE

isDayScheduled(date, h, z) ==
    LET frequency == IF h.frequency = << >> THEN "daily" ELSE h.frequency[1]
    IN  CASE frequency = "daily" -> TRUE
          [] frequency = "weekly" -> TRUE
          [] frequency = "interval" -> IntervalScheduled(date, h, z)
          [] frequency = "specific_days" -> SpecificDaysScheduled(date, h, z)
          [] OTHER -> TRUE

(***************************************************************************)
(* Arrays.                                                                 *)
(***************************************************************************)
\* new Set(array): the elements of the array
SetOf(arr) == { arr[k] : k \in DOMAIN arr }

\* [...array].sort(): a sorted copy, ascending in string order
SortCopy(arr) == SortSeq(arr, LAMBDA a, b : a < b)

\* array.reverse()
Reverse(arr) == [ k \in 1..Len(arr) |-> arr[Len(arr) + 1 - k] ]

(***************************************************************************)
(* calculateHabitScore(completedDates, habit, daysToAnalyze)               *)
(***************************************************************************)
\* the two branches of if (wasCompleted) exchanged
HabitScoreUpdateSwapped(s, wasCompleted) ==
    IF ~wasCompleted
    THEN LET increase == Thousandths(SCORE_INCREASE, MAX_SCORE - s \div 2)
         IN  Min2(MAX_SCORE, s + increase)
    ELSE LET decrease == Thousandths(SCORE_DECREASE, MAX_SCORE \div 2 + s \div 2)
         IN  Max2(MIN_SCORE, s - decrease)

\* the update without Math.min / Math.max
HabitScoreUpdateUnclamped(s, wasCompleted) ==
    IF wasCompleted
    THEN s + Thousandths(SCORE_INCREASE, MAX_SCORE - s \div 2)
    ELSE s - Thousandths(SCORE_DECREASE, MAX_SCORE \div 2 + s \div 2)

\* the update of the running score on a scheduled day
HabitScoreUpdate(s, wasCompleted) ==
    IF wasCompleted
    THEN LET increase == Thousandths(SCORE_INCREASE, MAX_SCORE - s \div 2)
         IN  Min2(MAX_SCORE, s + increase)
    ELSE LET decrease == Thousandths(SCORE_DECREASE, MAX_SCORE \div 2 + s \div 2)
         IN  Max2(MIN_SCORE, s - decrease)

\* the loop body with the completion looked up before the schedule
HabitScoreDayCompletionFirst(s, date, completedSet, h, z) ==
    IF formatDate(date, z) \in completedSet THEN HabitScoreUpdate(s, TRUE)
    ELSE IF ~isDayScheduled(date, h, z) THEN s
    ELSE HabitScoreUpdate(s, FALSE)

\* whether the loop body skips the day (continue) or updates the score
HabitScoreDay(s, date, completedSet, h, z) ==
    IF ~isDayScheduled(date, h, z) THEN s
    ELSE HabitScoreUpdate(s, formatDate(date, z) \in completedSet)

\* for (let i = daysToAnalyze - 1; i >= 0; i--): lv holds the loop variables
RECURSIVE HabitScoreLoop(_, _, _, _, _)
HabitScoreLoop(lv, completedSet, today, h, z) ==
    IF lv.i < 0 THEN lv.score
    ELSE HabitScoreLoop(
             [i |-> lv.i - 1,
              score |-> HabitScoreDay(lv.score, AddDays(today, 0 - lv.i, z),
                                      completedSet, h, z)],
             completedSet, today, h, z)

\* the loop started one day too early (i = daysToAnalyze)
calculateHabitScoreOffByOne(cd, h, daysToAnalyze, nowT, z) ==
    HabitScoreLoop([i |-> daysToAnalyze, score |-> 0],
                   SetOf(cd), SetHoursZero(nowT, z), h, z)

calculateHabitScore(cd, h, daysToAnalyze, nowT, z) ==
    HabitScoreLoop([i |-> daysToAnalyze - 1, score |-> 0],
                   SetOf(cd), SetHoursZero(nowT, z), h, z)

(***************************************************************************)
(* calculateScoreHistory(completedDates, habit, days)                      *)
(***************************************************************************)
\* a missed day sets the score back to MIN_SCORE
ScoreHistoryUpdateMissResets(s, wasCompleted) ==
    IF wasCompleted
    THEN LET increase == Thousandths(SCORE_INCREASE, MAX_SCORE - s \div 2)
         IN  Min2(MAX_SCORE, s + increase)
    ELSE MIN_SCORE

\* the update of a missed day without Math.max(MIN_SCORE, ...)
ScoreHistoryUpdateNoFloor(s, wasCompleted) ==
    IF wasCompleted
    THEN LET increase == Thousandths(SCORE_INCREASE, MAX_SCORE - s \div 2)
         IN  Min2(MAX_SCORE, s + increase)
    ELSE s - Thousandths(SCORE_DECREASE, MAX_SCORE \div 2 + s \div 2)

ScoreHistoryUpdate(s, wasCompleted) ==
    IF wasCompleted
    THEN LET increase == Thousandths(SCORE_INCREASE, MAX_SCORE - s \div 2)
         IN  Min2(MAX_SCORE, s + increase)
    ELSE LET decrease == Thousandths(SCORE_DECREASE, MAX_SCORE \div 2 + s \div 2)
         IN  Max2(MIN_SCORE, s - decrease)

\* the loop body with the schedule check left out: every day is scored
ScoreHistoryDayUnscheduledScored(s, date, completedSet, h, z) ==
    ScoreHistoryUpdate(s, formatDate(date, z) \in completedSet)

ScoreHistoryDay(s, date, completedSet, h, z) ==
    IF isDayScheduled(date, h, z)
    THEN ScoreHistoryUpdate(s, formatDate(date, z) \in completedSet)
    ELSE s

\* for (let i = days - 1; i >= 0; i--) { ...; history.push({date, score}) }
RECURSIVE ScoreHistoryLoop(_, _, _, _, _)
ScoreHistoryLoop(lv, completedSet, today, h, z) ==
    IF lv.i < 0 THEN lv.history
    ELSE LET date == AddDays(today, 0 - lv.i, z)
             s2 == ScoreHistoryDay(lv.score, date, completedSet, h, z)
         IN  ScoreHistoryLoop(
                 [i |-> lv.i - 1,
                  score |-> s2,
                  history |-> Append(lv.history,
                                     [date |-> formatDate(date, z), score |-> s2])],
                 completedSet, today, h, z)

\* the loop started one day too early (i = days)
calculateScoreHistoryOffByOne(cd, h, nDays, nowT, z) ==
    ScoreHistoryLoop([i |-> nDays, score |-> 0, history |-> << >>],
                     SetOf(cd), SetHoursZero(nowT, z), h, z)

calculateScoreHistory(cd, h, nDays, nowT, z) ==
    ScoreHistoryLoop([i |-> nDays - 1, score |-> 0, history |-> << >>],
                     SetOf(cd), SetHoursZero(nowT, z), h, z)

(***************************************************************************)
(* calculateStreak(completedDates, habit)                                  *)
(***************************************************************************)
\* the walk always started at today
StreakStartToday(completedSet, today, h, z) == today

\* the day the backward walk starts at
StreakStart(completedSet, today, h, z) ==
    IF formatDate(today, z) \notin completedSet /\ isDayScheduled(today, h, z)
    THEN AddDays(today, 0 - 1, z)
    ELSE today

\* one pass of the body of while (true) { ... }; st.done is set by a break,
\* st.examined records the date the latest pass looked at
StreakIteration(st, completedSet, today, h, z) ==
    IF st.done THEN st
    ELSE LET isScheduled == isDayScheduled(st.currentDate, h, z)
             completed == formatDate(st.currentDate, z) \in completedSet
         IN  IF isScheduled /\ ~completed
             THEN [st EXCEPT !.done = TRUE, !.examined = st.currentDate]
             ELSE LET previous == AddDays(st.currentDate, 0 - 1, z)
                      daysDiff == DaysBetween(today, previous)
                  IN  [currentDate |-> previous,
                       streak |-> IF isScheduled THEN st.streak + 1 ELSE st.streak,
                       done |-> daysDiff > MAX_DAYS_BACK,
                       examined |-> st.currentDate]

\* n passes of the loop body, one after the other
RECURSIVE StreakLoop(_, _, _, _, _, _)
StreakLoop(n, st, completedSet, today, h, z) ==
    IF n = 0 THEN st
    ELSE IF n = 1 THEN StreakIteration(st, completedSet, today, h, z)
    ELSE LET half == StreakLoop(n \div 2, st, completedSet, today, h, z)
         IN  IF half.done THEN half
             ELSE StreakLoop(n - n \div 2, half, completedSet, today, h, z)

\* the loop has broken after at most this many passes: pass k moves
\* currentDate to at least k - 1 days before today
StreakPasses == MAX_DAYS_BACK + 2

\* the loop variables when the loop is left, or after StreakPasses passes
StreakWalk(cd, h, nowT, z) ==
    LET sortedDates == Reverse(SortCopy(cd))
        completedSet == SetOf(sortedDates)
        today == SetHoursZero(nowT, z)
        start == [currentDate |-> StreakStart(completedSet, today, h, z),
                  streak |-> 0, done |-> FALSE, examined |-> today]
    IN  StreakLoop(StreakPasses, start, completedSet, today, h, z)

calculateStreak(cd, h, nowT, z) ==
    IF Len(cd) = 0 THEN 0 ELSE StreakWalk(cd, h, nowT, z).streak

\* completedDates after the call: sort() and reverse() act on the copy
\* [...completedDates]
StreakLeavesArray(cd) == cd

(***************************************************************************)
(* calculateBestStreak(completedDates, habit)                              *)
(***************************************************************************)
\* one pass of the body of while (currentDate <= endDate) { ... }
BestStreakIteration(st, completedSet, endDate, h, z) ==
    IF ~(st.currentDate <= endDate) THEN st
    ELSE LET isScheduled == isDayScheduled(st.currentDate, h, z)
             completed == formatDate(st.currentDate, z) \in completedSet
             cur == IF ~isScheduled THEN st.currentStreak
                    ELSE IF completed THEN st.currentStreak + 1 ELSE 0
         IN  [currentDate |-> AddDays(st.currentDate, 1, z),
              currentStreak |-> cur,
              bestStreak |-> IF isScheduled /\ completed
                             THEN Max2(st.bestStreak, cur) ELSE st.bestStreak]

\* n passes of the loop body, one after the other
RECURSIVE BestStreakLoop(_, _, _, _, _, _)
BestStreakLoop(n, st, completedSet, endDate, h, z) ==
    IF n = 0 THEN st
    ELSE IF n = 1 THEN BestStreakIteration(st, completedSet, endDate, h, z)
    ELSE LET half == BestStreakLoop(n \div 2, st, completedSet, endDate, h, z)
         IN  IF ~(half.currentDate <= endDate) THEN half
             ELSE BestStreakLoop(n - n \div 2, half, completedSet, endDate, h, z)

\* the loop condition is false after at most this many passes
BestStreakPasses(startDate, endDate) == Max2(0, DaysBetween(endDate, startDate) + 2)

\* new Date(sortedDates[0]): the earliest completion date, read as a date-only string
BestStreakStart(sortedDates) == NewDateFromDateString(sortedDates[1])

calculateBestStreak(cd, h, nowT, z) ==
    IF Len(cd) = 0 THEN 0
    ELSE LET sortedDates == SortCopy(cd)
             completedSet == SetOf(sortedDates)
             startDate == BestStreakStart(sortedDates)
             endDate == SetHoursZero(nowT, z)
             start == [currentDate |-> startDate, currentStreak |-> 0, bestStreak |-> 0]
         IN  BestStreakLoop(BestStreakPasses(startDate, endDate), start,
                            completedSet, endDate, h, z).bestStreak

\* completedDates after a call that sorts the array itself
BestStreakSortsArray(cd) == SortCopy(cd)

\* completedDates after the call: sort() acts on the copy [...completedDates]
BestStreakLeavesArray(cd) == cd

(***************************************************************************)
(* calculateTotal(completedDates)                                          *)
(***************************************************************************)
calculateTotal(cd) == Len(cd)

(***************************************************************************)
(* calculateCompletionRate(completedDates, habit, days)                    *)
(***************************************************************************)
RECURSIVE GCD(_, _)
GCD(a, b) == IF b = 0 THEN a ELSE GCD(b, a % b)

\* the number a / b of two counts, as a fraction in lowest terms; 0 / 0 is
\* NaN and a / 0 is Infinity
NaN == [num |-> 0, den |-> 0]
Infinity == [num |-> 1, den |-> 0]
Quotient(a, b) ==
    IF b = 0 THEN (IF a = 0 THEN NaN ELSE Infinity)
    ELSE [num |-> a \div GCD(a, b), den |-> b \div GCD(a, b)]

\* the number 0
Zero == [num |-> 0, den |-> 1]

\* the loop body with completedDays++ outside if (isDayScheduled(...))
CompletionRateDayCountsUnscheduled(lv, date, completedSet, h, z) ==
    [i |-> lv.i + 1,
     scheduledDays |-> IF isDayScheduled(date, h, z)
                       THEN lv.scheduledDays + 1 ELSE lv.scheduledDays,
     completedDays |-> IF formatDate(date, z) \in completedSet
                       THEN lv.completedDays + 1 ELSE lv.completedDays]

\* the loop body and i++
CompletionRateDay(lv, date, completedSet, h, z) ==
    LET isScheduled == isDayScheduled(date, h, z)
        completed == formatDate(date, z) \in completedSet
    IN  [i |-> lv.i + 1,
         scheduledDays |-> IF isScheduled
                           THEN lv.scheduledDays + 1 ELSE lv.scheduledDays,
         completedDays |-> IF isScheduled /\ completed
                           THEN lv.completedDays + 1 ELSE lv.completedDays]

\* for (let i = 0; i < days; i++): lv holds the loop variables
RECURSIVE CompletionRateLoop(_, _, _, _, _, _)
CompletionRateLoop(lv, nDays, completedSet, today, h, z) ==
    IF ~(lv.i < nDays) THEN lv
    ELSE CompletionRateLoop(
             CompletionRateDay(lv, AddDays(today, 0 - lv.i, z), completedSet, h, z),
             nDays, completedSet, today, h, z)

\* the return without the test scheduledDays > 0
calculateCompletionRateUnguarded(cd, h, nDays, nowT, z) ==
    LET lv == CompletionRateLoop([i |-> 0, scheduledDays |-> 0, completedDays |-> 0],
                                 nDays, SetOf(cd), SetHoursZero(nowT, z), h, z)
    IN  Quotient(lv.completedDays, lv.scheduledDays)

calculateCompletionRate(cd, h, nDays, nowT, z) ==
    LET lv == CompletionRateLoop([i |-> 0, scheduledDays |-> 0, completedDays |-> 0],
                                 nDays, SetOf(cd), SetHoursZero(nowT, z), h, z)
    IN  IF lv.scheduledDays > 0
        THEN Quotient(lv.completedDays, lv.scheduledDays)
        ELSE Zero

(***************************************************************************)
(* getHabitStats(completedDates, habit)                                    *)
(***************************************************************************)
\* the object built with the history over the score's default window
getHabitStatsOneWindow(cd, h, nowT, z) ==
    [score |-> calculateHabitScore(cd, h, DEFAULT_DAYS_TO_ANALYZE, nowT, z),
     currentStreak |-> calculateStreak(cd, h, nowT, z),
     bestStreak |-> calculateBestStreak(cd, h, nowT, z),
     total |-> calculateTotal(cd),
     completionRate |-> calculateCompletionRate(cd, h, DEFAULT_RATE_DAYS, nowT, z),
     scoreHistory |-> calculateScoreHistory(cd, h, DEFAULT_DAYS_TO_ANALYZE, nowT, z)]

\* every function is called without its window argument, which takes its default
getHabitStats(cd, h, nowT, z) ==
    [score |-> calculateHabitScore(cd, h, DEFAULT_DAYS_TO_ANALYZE, nowT, z),
     currentStreak |-> calculateStreak(cd, h, nowT, z),
     bestStreak |-> calculateBestStreak(cd, h, nowT, z),
     total |-> calculateTotal(cd),
     completionRate |-> calculateCompletionRate(cd, h, DEFAULT_RATE_DAYS, nowT, z),
     scoreHistory |-> calculateScoreHistory(cd, h, DEFAULT_HISTORY_DAYS, nowT, z)]

(***************************************************************************)
(* Inputs of the engine.                                                   *)
(***************************************************************************)
Absent == << >>

Zone(off, chg) == [offset |-> off, change |-> chg]

\* the civil day of the clock change of the zone that has one
ClockChangeDay == Today - 2

\* time zones of the environment: three without a clock change, and one
\* whose clocks went forward two days before the call
TimeZones ==
    { Zone(0 - 5, Absent), Zone(0, Absent), Zone(2, Absent),
      Zone(0 - 5, << ClockChangeDay >>) }

\* local midnight of civil day d
LocalMidnight(d, z) == LocalInstant(d, 0, z)

\* habit.createdAt: the date-only string of civil day d
DateOnly(d) == [kind |-> "date", day |-> d, hour |-> 0]
\* habit.createdAt: the ISO timestamp of hour hh (UTC) of civil day d (UTC)
Timestamp(d, hh) == [kind |-> "instant", day |-> d, hour |-> hh]

MakeHabit(f, n, c, sd, tpw) ==
    [frequency |-> f, interval |-> n, createdAt |-> c,
     specificDays |-> sd, timesPerWeek |-> tpw]

\* 19723 is 2024-01-01
CreatedAts == { DateOnly(19723), DateOnly(Today + 1), Timestamp(19724, 22) }

Intervals == { Absent, << 0 >>, << 1 >>, << 2 >>, << 3 >>, << 0 - 2 >> }

\* the intervals the habit form and the Habit schema let through
ValidIntervals == { << 2 >>, << 3 >> }

SpecificDaySets == { Absent, << {} >>, << {1, 3, 5} >>, << {0, 6} >> }

DailyHabit == MakeHabit(<< "daily" >>, Absent, DateOnly(19723), Absent, Absent)

\* habits whose frequency is not "interval" or "specific_days" although the
\* fields of those schedules are set
EveryDayHabits ==
    { DailyHabit,
      MakeHabit(<< "weekly" >>, Absent, DateOnly(19723), Absent, << 3 >>),
      MakeHabit(Absent, Absent, DateOnly(19723), Absent, Absent),
      MakeHabit(<< "monthly" >>, Absent, DateOnly(19723), Absent, Absent),
      MakeHabit(<< "weekly" >>, << 3 >>, DateOnly(Today + 1), << {} >>, << 1 >>),
      MakeHabit(<< "daily" >>, << 2 >>, Timestamp(19724, 22), << {0, 6} >>, << 7 >>),
      MakeHabit(Absent, << 3 >>, DateOnly(Today + 1), << {1, 3, 5} >>, Absent) }

Habits ==
    EveryDayHabits
    \cup { MakeHabit(<< "interval" >>, n, c, Absent, Absent) :
             n \in ValidIntervals, c \in CreatedAts }
    \cup { MakeHabit(<< "interval" >>, n, DateOnly(19723), Absent, Absent) :
             n \in Intervals }
    \cup { MakeHabit(<< "specific_days" >>, Absent, DateOnly(19723), sd, Absent) :
             sd \in SpecificDaySets }

CompletionDays == (Today - MaxAge)..Today

SetMax(S) == CHOOSE x \in S : \A y \in S : y <= x

\* the elements of S as an array, latest first
RECURSIVE Descending(_)
Descending(S) ==
    IF S = {} THEN << >> ELSE << SetMax(S) >> \o Descending(S \ { SetMax(S) })

\* the last n days up to Today, earliest first
LastDays(n) == [ k \in 1..n |-> Today - n + k ]

\* the days isDayScheduled is asked about
ProbeDays == (Today - MaxAge - 1)..(Today + 1)

\* arrays in the order the dates were ticked, one with a date twice
UnsortedArrays == { << Today - 1, Today, Today - 2 >>, << Today, Today - 1, Today >> }

ShortArrays == { Descending(S) : S \in SUBSET CompletionDays } \cup UnsortedArrays

ShortInputs ==
    /\ habit \in Habits
    /\ completedDates \in ShortArrays
    /\ days \in 0..MaxLookback

\* every day of the default window completed
FullWindowInputs ==
    /\ habit = DailyHabit
    /\ completedDates = LastDays(DEFAULT_DAYS_TO_ANALYZE)
    /\ days \in 0..DEFAULT_DAYS_TO_ANALYZE

\* an unbroken run of completions longer than a year
LongRunInputs ==
    /\ habit = DailyHabit
    /\ completedDates = LastDays(LongRun)
    /\ days = DEFAULT_DAYS_TO_ANALYZE

\* nothing completed, every window up to the default one
EmptyInputs ==
    /\ habit = DailyHabit
    /\ completedDates = << >>
    /\ days \in 0..DEFAULT_DAYS_TO_ANALYZE

\* a run of completions that ended yesterday: today is the first miss
RunThenMissInputs ==
    /\ habit = DailyHabit
    /\ \E n \in 1..DEFAULT_DAYS_TO_ANALYZE :
           completedDates = [ k \in 1..n |-> Today - 1 - n + k ]
    /\ days = DEFAULT_DAYS_TO_ANALYZE

\* no function has returned yet
NothingReturned ==
    /\ scheduledDays = {}
    /\ score = 0
    /\ currentStreak = 0
    /\ bestStreak = 0
    /\ total = 0
    /\ completionRate = Zero
    /\ scoreHistory = << >>
    /\ stats = << >>
    /\ cached = << >>

\* app.js 17-36: the client's memory when the script is loaded
InitialState(nowT) ==
    [ currentDate |-> nowT, useBackend |-> FALSE, habits |-> {},
      completions |-> << >> ]

\* app.js 1524-1555: the stores of the local database when it is created,
\* with the next key of the auto-incremented completions store
EmptyDb == [ habits |-> {}, completions |-> {}, nextId |-> 1 ]

\* the engine is called on its own: no request, no stored record
AppIdle ==
    /\ habitsColl = {}
    /\ completionsColl = {}
    /\ requests = << >>
    /\ state = InitialState(now)
    /\ localDb = EmptyDb
    /\ calls = << >>
    /\ toast = ""

Init ==
    /\ tz \in TimeZones
    /\ now = LocalInstant(Today, NowHour, tz)
    /\ (ShortInputs \/ FullWindowInputs \/ LongRunInputs \/ EmptyInputs
           \/ RunThenMissInputs)
    /\ pc = "isDayScheduled"
    /\ NothingReturned
    /\ AppIdle

inputs == << completedDates, habit, tz, now, days >>
environment == << habit, tz, now, days >>

(***************************************************************************)
(* The calls of the single functions, in the order getHabitStats makes     *)
(* them.                                                                   *)
(***************************************************************************)
CallIsDayScheduled ==
    /\ pc = "isDayScheduled"
    /\ scheduledDays' = { d \in ProbeDays : isDayScheduled(LocalMidnight(d, tz), habit, tz) }
    /\ pc' = "calculateHabitScore"
    /\ UNCHANGED app
    /\ UNCHANGED << inputs, score, currentStreak, bestStreak, total,
                    completionRate, scoreHistory, stats, cached >>

CallHabitScore ==
    /\ pc = "calculateHabitScore"
    /\ score' = calculateHabitScore(completedDates, habit, days, now, tz)
    /\ pc' = "calculateStreak"
    /\ UNCHANGED app
    /\ UNCHANGED << inputs, scheduledDays, currentStreak, bestStreak,
                    total, completionRate, scoreHistory, stats, cached >>

CallStreak ==
    /\ pc = "calculateStreak"
    /\ currentStreak' = calculateStreak(completedDates, habit, now, tz)
    /\ completedDates' = StreakLeavesArray(completedDates)
    /\ pc' = "calculateBestStreak"
    /\ UNCHANGED app
    /\ UNCHANGED << environment, scheduledDays, score, bestStreak, total,
                    completionRate, scoreHistory, stats, cached >>

CallBestStreak ==
    /\ pc = "calculateBestStreak"
    /\ bestStreak' = calculateBestStreak(completedDates, habit, now, tz)
    /\ completedDates' = BestStreakLeavesArray(completedDates)
    /\ pc' = "calculateTotal"
    /\ UNCHANGED app
    /\ UNCHANGED << environment, scheduledDays, score, currentStreak,
                    total, completionRate, scoreHistory, stats, cached >>

CallTotal ==
    /\ pc = "calculateTotal"
    /\ total' = calculateTotal(completedDates)
    /\ pc' = "calculateCompletionRate"
    /\ UNCHANGED app
    /\ UNCHANGED << inputs, scheduledDays, score, currentStreak,
                    bestStreak, completionRate, scoreHistory, stats, cached >>

CallCompletionRate ==
    /\ pc = "calculateCompletionRate"
    /\ completionRate' = calculateCompletionRate(completedDates, habit, days, now, tz)
    /\ pc' = "calculateScoreHistory"
    /\ UNCHANGED app
    /\ UNCHANGED << inputs, scheduledDays, score, currentStreak,
                    bestStreak, total, scoreHistory, stats, cached >>

CallScoreHistory ==
    /\ pc = "calculateScoreHistory"
    /\ scoreHistory' = calculateScoreHistory(completedDates, habit, days, now, tz)
    /\ pc' = "done"
    /\ UNCHANGED app
    /\ UNCHANGED << inputs, scheduledDays, score, currentStreak,
                    bestStreak, total, completionRate, stats, cached >>

Next ==
    \/ CallIsDayScheduled
    \/ CallHabitScore
    \/ CallStreak
    \/ CallBestStreak
    \/ CallTotal
    \/ CallCompletionRate
    \/ CallScoreHistory

Spec == Init /\ [][Next]_vars

(***************************************************************************)
(* The same calls on the inputs whose completion sets are compared with    *)
(* their subsets.                                                          *)
(***************************************************************************)
InitCompare ==
    /\ tz \in TimeZones
    /\ now = LocalInstant(Today, NowHour, tz)
    /\ (ShortInputs \/ FullWindowInputs \/ RunThenMissInputs)
    /\ pc = "isDayScheduled"
    /\ NothingReturned
    /\ AppIdle

SpecCompare == InitCompare /\ [][Next]_vars

(***************************************************************************)
(* A caller that keeps the object getHabitStats returned and calls again   *)
(* later with the same arguments, while the clock of the environment runs. *)
(***************************************************************************)
\* the clock runs on to 23:00 of the same civil day, or by a whole day
ClockSteps == { HOURS_PER_DAY - 1 - NowHour, HOURS_PER_DAY }

CallerArrays ==
    { Descending(S) : S \in SUBSET ((Today - 2)..Today) } \cup UnsortedArrays

InitCaller ==
    /\ tz \in TimeZones
    /\ now = LocalInstant(Today, NowHour, tz)
    /\ habit \in Habits
    /\ completedDates \in CallerArrays
    /\ days = DEFAULT_HISTORY_DAYS
    /\ pc = "getHabitStats"
    /\ NothingReturned
    /\ AppIdle

CallGetHabitStats ==
    /\ pc = "getHabitStats"
    /\ stats' = << getHabitStats(completedDates, habit, now, tz) >>
    /\ completedDates' = BestStreakLeavesArray(StreakLeavesArray(completedDates))
    /\ pc' = "done"
    /\ UNCHANGED app
    /\ UNCHANGED << environment, scheduledDays, score, currentStreak,
                    bestStreak, total, completionRate, scoreHistory, cached >>

\* the caller keeps the result, with the clock reading of the call
KeepResult ==
    /\ pc = "done"
    /\ cached = << >>
    /\ cached' = << [now |-> now, stats |-> stats[1]] >>
    /\ pc' = "waiting"
    /\ UNCHANGED app
    /\ UNCHANGED << inputs, scheduledDays, score, currentStreak,
                    bestStreak, total, completionRate, scoreHistory, stats >>

ClockAdvance ==
    /\ pc = "waiting"
    /\ \E step \in ClockSteps : now' = now + step
    /\ pc' = "getHabitStats"
    /\ UNCHANGED app
    /\ UNCHANGED << completedDates, habit, tz, days, scheduledDays, score,
                    currentStreak, bestStreak, total, completionRate,
                    scoreHistory, stats, cached >>

NextCaller ==
    \/ CallGetHabitStats
    \/ KeepResult
    \/ ClockAdvance

SpecCaller == InitCaller /\ [][NextCaller]_vars

(***************************************************************************)
(* Vocabulary of the properties: civil days instead of instants.           *)
(***************************************************************************)
TodayDay == LocalDay(now, tz)
Completed(d) == d \in SetOf(completedDates)
Scheduled(d) == isDayScheduled(LocalMidnight(d, tz), habit, tz)
\* the n days ending today
Window(n) == (TodayDay - n + 1)..TodayDay
\* the state in which the function has just returned
ScoreReturned == pc = "calculateStreak"
StreakReturned == pc = "calculateBestStreak"
BestStreakReturned == pc = "calculateTotal"
RateReturned == pc = "calculateScoreHistory"
HistoryReturned == pc = "done"

InUnitInterval(s) == MIN_SCORE <= s /\ s <= MAX_SCORE

(***************************************************************************)
(* C1: for every completion set, schedule and window the score returned by *)
(* calculateHabitScore lies in [0,1], and so does the running score after  *)
(* every day of the walk, i.e. every entry of calculateScoreHistory.       *)
(***************************************************************************)
C1_ScoreInUnitInterval ==
    /\ ScoreReturned => InUnitInterval(score)
    /\ HistoryReturned =>
         \A k \in DOMAIN scoreHistory : InUnitInterval(scoreHistory[k].score)

\* a walk on which both clamps were needed: the score was held at 0 on a
\* missed day and, on another input, held at 1 on a completed day
C1_Witness ==
    /\ HistoryReturned
    /\ days = DEFAULT_DAYS_TO_ANALYZE
    /\ score = MAX_SCORE
    /\ scoreHistory[Len(scoreHistory)].score = MAX_SCORE
    /\ scoreHistory[1].score > MIN_SCORE

(***************************************************************************)
(* C2: calculateHabitScore equals the walk that starts from score 0 and    *)
(* visits the days from lookbackDays-1 days ago up to today in ascending   *)
(* order: unchanged on a day that is not scheduled, min(1, s + 0.052 *     *)
(* (1 - 0.5 s)) on a scheduled and completed day, max(0, s - 0.035 *       *)
(* (0.5 + 0.5 s)) on a scheduled and missed day.  A daily habit completed  *)
(* on each day of a 3-day window scores the completion step applied three  *)
(* times from 0: 0.052, 0.102648, 0.1519791.                               *)
(***************************************************************************)
C2_Completion(s) == Min2(MAX_SCORE, s + (52 * (MAX_SCORE - s \div 2)) \div 1000)
C2_Miss(s) == Max2(0, s - (35 * (MAX_SCORE \div 2 + s \div 2)) \div 1000)

C2_Day(s, d) ==
    IF ~Scheduled(d) THEN s
    ELSE IF Completed(d) THEN C2_Completion(s) ELSE C2_Miss(s)

\* the score after the days first..d, visited in ascending order
RECURSIVE C2_Walk(_, _)
C2_Walk(d, last) ==
    IF d.day > last THEN d.s
    ELSE C2_Walk([day |-> d.day + 1, s |-> C2_Day(d.s, d.day)], last)

C2_Recurrence(n) == C2_Walk([day |-> TodayDay - (n - 1), s |-> 0], TodayDay)

C2_ThreeDayCase ==
    /\ habit = DailyHabit
    /\ days = 3
    /\ \A d \in Window(3) : Completed(d)

C2_ScoreIsRecurrence ==
    ScoreReturned =>
        /\ score = C2_Recurrence(days)
        /\ C2_ThreeDayCase =>
             /\ C2_Completion(0) = 520000
             /\ C2_Completion(C2_Completion(0)) = 1026480
             /\ score = C2_Completion(C2_Completion(C2_Completion(0)))
             /\ score = 1519791

C2_Witness == ScoreReturned /\ C2_ThreeDayCase /\ score = 1519791

(***************************************************************************)
(* C3: for a daily habit whose completion set contains every day of the    *)
(* lookback window, the running score strictly increases on every day of   *)
(* the window and never reaches 1.0, for every window length up to the     *)
(* default of 60 days.                                                     *)
(***************************************************************************)
C3_EveryDayCompleted ==
    /\ habit.frequency = << "daily" >>
    /\ \A d \in Window(days) : Completed(d)

\* the running score before entry k of the history
C3_Before(k) == IF k = 1 THEN 0 ELSE scoreHistory[k - 1].score

C3_StrictlyIncreasingBelowOne ==
    (HistoryReturned /\ C3_EveryDayCompleted) =>
        /\ \A k \in DOMAIN scoreHistory :
              /\ scoreHistory[k].score > C3_Before(k)
              /\ scoreHistory[k].score < MAX_SCORE
        /\ score < MAX_SCORE

(***************************************************************************)
(* C4: for N >= 1 the score of the last entry of calculateScoreHistory(    *)
(* dates, habit, N) equals calculateHabitScore(dates, habit, N) evaluated  *)
(* on the same day.                                                        *)
(***************************************************************************)
C4_LastEntryIsScore ==
    (HistoryReturned /\ days >= 1) =>
        /\ Len(scoreHistory) >= 1
        /\ scoreHistory[Len(scoreHistory)].score = score

\* a window with completed, missed and unscheduled days, scored above 0
C4_Witness ==
    /\ HistoryReturned
    /\ days >= 3
    /\ score > 0
    /\ scoreHistory[Len(scoreHistory)].score = score
    /\ \E d \in Window(days) : ~Scheduled(d)
    /\ \E d \in Window(days) : Scheduled(d) /\ Completed(d)
    /\ \E d \in Window(days) : Scheduled(d) /\ ~Completed(d)

(***************************************************************************)
(* C5: for every completion set and schedule, evaluated on the same day,   *)
(* calculateBestStreak >= calculateStreak, also when today (or only today) *)
(* is completed and when the earliest completion date is today.            *)
(***************************************************************************)
C5_BestAtLeastCurrent == BestStreakReturned => bestStreak >= currentStreak

(***************************************************************************)
(* C6: only scheduled days affect the score.  Two completion sets that     *)
(* agree on every scheduled day of the window (and differ arbitrarily on   *)
(* the other days, inside or outside the window) give the same             *)
(* calculateHabitScore and the same calculateScoreHistory entries; the     *)
(* history entry of a day that is not scheduled carries the score of the   *)
(* entry before it (0 for the first entry).                                *)
(***************************************************************************)
\* the days on which another completion set may differ
C6_FreeDays ==
    { d \in (TodayDay - MaxAge)..TodayDay :
        ~(d \in Window(days) /\ Scheduled(d)) }

\* the completion sets that agree with completedDates on the scheduled days
\* of the window, as arrays
C6_AgreeingDates ==
    { Descending((SetOf(completedDates) \ C6_FreeDays) \cup X) :
        X \in SUBSET C6_FreeDays }

C6_OnlyScheduledDaysCount ==
    HistoryReturned =>
        /\ \A other \in C6_AgreeingDates :
              /\ calculateHabitScore(other, habit, days, now, tz) = score
              /\ calculateScoreHistory(other, habit, days, now, tz) = scoreHistory
        /\ \A k \in DOMAIN scoreHistory :
              ~Scheduled(scoreHistory[k].date) =>
                  scoreHistory[k].score = C3_Before(k)

\* a window with a completed day that is not scheduled, after a scheduled
\* and completed one
C6_Witness ==
    /\ HistoryReturned
    /\ score > 0
    /\ \E k \in DOMAIN scoreHistory :
          /\ ~Scheduled(scoreHistory[k].date)
          /\ Completed(scoreHistory[k].date)
          /\ scoreHistory[k].score > 0
          /\ scoreHistory[k].score = C3_Before(k)

(***************************************************************************)
(* C7: calculateStreak returns the number of scheduled and completed days  *)
(* met when walking backward one day at a time from the start day until    *)
(* the first scheduled day that is not completed; days that are not        *)
(* scheduled are skipped without ending the walk, completed or not.  The   *)
(* start day is today if today is unscheduled or is scheduled and          *)
(* completed, and yesterday if today is scheduled and not completed.       *)
(* Amended: the walk also ends once the day 365 days before today has been *)
(* examined, 365 counted in whole elapsed 24-hour days between the local   *)
(* midnights.                                                              *)
(***************************************************************************)
SetMin(S) == CHOOSE x \in S : \A y \in S : x <= y

C7_Start ==
    IF Scheduled(TodayDay) /\ ~Completed(TodayDay) THEN TodayDay - 1 ELSE TodayDay

C7_Missed(d) == Scheduled(d) /\ ~Completed(d)

\* the scheduled and completed days met on the way down from the start day,
\* on a walk that does not go below day lowest
C7_Met(lowest) ==
    LET missed == { d \in lowest..C7_Start : C7_Missed(d) }
        stop == IF missed = {} THEN lowest - 1 ELSE SetMax(missed)
    IN  { d \in (stop + 1)..C7_Start : Scheduled(d) /\ Completed(d) }

\* no completed day is met below the earliest completion date
C7_Earliest == SetMin(SetOf(completedDates))

\* the claim as stated: the walk ends only at a scheduled day that is not completed
C7_StreakIsBackwardCount ==
    pc = "calculateBestStreak" =>
        currentStreak = IF completedDates = << >> THEN 0
                        ELSE Cardinality(C7_Met(C7_Earliest))

\* whole 24-hour days elapsed from local midnight of day d to local midnight of today
C7_ElapsedDays(d) ==
    (LocalMidnight(TodayDay, tz) - LocalMidnight(d, tz)) \div HOURS_PER_DAY

\* the earliest day that is at most 365 elapsed days before today
C7_YearAgo ==
    SetMin({ d \in (TodayDay - MAX_DAYS_BACK - 2)..TodayDay :
               C7_ElapsedDays(d) <= MAX_DAYS_BACK })

\* the claim as amended: the walk examines no day more than 365 elapsed days
\* before today
C7_StreakIsBackwardCountWithinYear ==
    pc = "calculateBestStreak" =>
        currentStreak = IF completedDates = << >> THEN 0
                        ELSE Cardinality(C7_Met(Max2(C7_Earliest, C7_YearAgo)))

\* a streak that runs over a skipped unscheduled day and starts yesterday
C7_Witness ==
    /\ pc = "calculateBestStreak"
    /\ currentStreak >= 2
    /\ C7_Start = TodayDay - 1
    /\ \E d \in (TodayDay - MaxAge)..TodayDay :
          /\ ~Scheduled(d)
          /\ \E a \in C7_Met(C7_Earliest) : a < d
          /\ \E b \in C7_Met(C7_Earliest) : b > d

(***************************************************************************)
(* C8: calculateBestStreak walks every calendar day from the earliest      *)
(* completion date up to and including today with a running counter that   *)
(* is incremented on a scheduled and completed day, reset to 0 on a        *)
(* scheduled and missed day and left unchanged on a day that is not        *)
(* scheduled, and returns the maximum the counter reached; when the only   *)
(* completion is today on a daily habit it returns 1.                      *)
(***************************************************************************)
\* the value of the running counter after day e of the walk
C8_Counter(e) ==
    LET missed == { d \in C7_Earliest..e : C7_Missed(d) }
        reset == IF missed = {} THEN C7_Earliest - 1 ELSE SetMax(missed)
    IN  Cardinality({ d \in (reset + 1)..e : Scheduled(d) /\ Completed(d) })

C8_Maximum ==
    IF completedDates = << >> \/ C7_Earliest > TodayDay THEN 0
    ELSE SetMax({ C8_Counter(e) : e \in C7_Earliest..TodayDay })

C8_BestStreakIsForwardMaximum ==
    BestStreakReturned =>
        /\ bestStreak = C8_Maximum
        /\ (habit = DailyHabit /\ completedDates = << TodayDay >>) => bestStreak = 1

(***************************************************************************)
(* C9: for frequency 'interval' with interval n >= 2 and anchor createdAt, *)
(* isDayScheduled(date, habit) is true iff date is on or after the         *)
(* createdAt day and the number of days between the createdAt day and date *)
(* is a multiple of n; with n = 2 and createdAt = 2024-01-01 it is true    *)
(* for 2024-01-01, -03, -05 and false for 2024-01-02, -04.                 *)
(***************************************************************************)
\* the calendar day createdAt names: the day of a date-only string, the
\* local day of a timestamp
C9_CreatedDay ==
    IF habit.createdAt.kind = "date" THEN habit.createdAt.day
    ELSE LocalDay(NewDateFromCreatedAt(habit.createdAt), tz)

C9_ValidInterval ==
    /\ habit.frequency = << "interval" >>
    /\ habit.interval # Absent
    /\ habit.interval[1] >= 2

C9_IntervalSchedule ==
    (pc = "calculateHabitScore" /\ C9_ValidInterval) =>
        /\ \A d \in ProbeDays :
              d \in scheduledDays <=>
                  /\ d >= C9_CreatedDay
                  /\ (d - C9_CreatedDay) % habit.interval[1] = 0
        /\ (habit.interval = << 2 >> /\ habit.createdAt = DateOnly(19723)) =>
              /\ { 19723, 19725, 19727 } \subseteq scheduledDays
              /\ { 19724, 19726 } \cap scheduledDays = {}

(***************************************************************************)
(* C10: for frequency 'interval', whenever habit.interval is absent or     *)
(* invalid (not an integer >= 2, e.g. 0, 1 or a negative number),          *)
(* isDayScheduled behaves exactly as with interval = 2.                    *)
(***************************************************************************)
C10_InvalidInterval ==
    /\ habit.frequency = << "interval" >>
    /\ (habit.interval = Absent \/ habit.interval[1] < 2)

C10_ScheduledWithIntervalTwo ==
    { d \in ProbeDays :
        isDayScheduled(LocalMidnight(d, tz), [habit EXCEPT !.interval = << 2 >>], tz) }

C10_InvalidIntervalIsTwo ==
    (pc = "calculateHabitScore" /\ C10_InvalidInterval) =>
        scheduledDays = C10_ScheduledWithIntervalTwo

(***************************************************************************)
(* C11: for a habit of frequency "specific_days" isDayScheduled is true of *)
(* a date exactly when the weekday of the date, counted from Sunday = 0,   *)
(* is a member of habit.specificDays, whatever the completion set is; when *)
(* specificDays is not set every day is scheduled.                         *)
(***************************************************************************)
\* the weekday of civil day d, 0 = Sunday: day 19723 (2024-01-01) was a Monday
C11_Weekday(d) == (d - 19723 + 1) % 7

C11_SpecificDaysHabit == habit.frequency = << "specific_days" >>

C11_WeekdaySchedule ==
    (pc = "calculateHabitScore" /\ C11_SpecificDaysHabit) =>
        \A d \in ProbeDays :
            d \in scheduledDays <=>
                (habit.specificDays = Absent \/ C11_Weekday(d) \in habit.specificDays[1])

\* Monday, Wednesday and Friday are scheduled, the days between them are not
C11_Witness ==
    /\ pc = "calculateHabitScore"
    /\ C11_SpecificDaysHabit
    /\ habit.specificDays = << {1, 3, 5} >>
    /\ completedDates # << >>
    /\ \E d \in ProbeDays : d \in scheduledDays /\ d + 1 \in ProbeDays \ scheduledDays

(***************************************************************************)
(* C12: for a habit whose frequency is "daily", "weekly", absent or not    *)
(* one of the four known kinds isDayScheduled is true of every date,       *)
(* whatever timesPerWeek, interval, specificDays and createdAt are, so     *)
(* such a habit (a weekly one in particular) is scored exactly like a      *)
(* daily habit with the same completions.                                  *)
(***************************************************************************)
C12_EveryDayFrequency ==
    habit.frequency = Absent \/ habit.frequency[1] \notin { "interval", "specific_days" }

C12_ScoredLikeDaily ==
    /\ (pc = "calculateHabitScore" /\ C12_EveryDayFrequency) =>
           scheduledDays = ProbeDays
    /\ (pc = "done" /\ C12_EveryDayFrequency) =>
           /\ score = calculateHabitScore(completedDates, DailyHabit, days, now, tz)
           /\ scoreHistory = calculateScoreHistory(completedDates, DailyHabit, days, now, tz)
           /\ currentStreak = calculateStreak(completedDates, DailyHabit, now, tz)
           /\ bestStreak = calculateBestStreak(completedDates, DailyHabit, now, tz)
           /\ completionRate =
                  calculateCompletionRate(completedDates, DailyHabit, days, now, tz)

\* a weekly habit that carries an interval, an empty list of weekdays and a
\* creation date after today, with a completion that raised its score
C12_Witness ==
    /\ pc = "done"
    /\ habit.frequency = << "weekly" >>
    /\ habit.interval = << 3 >>
    /\ habit.specificDays = << {} >>
    /\ habit.createdAt = DateOnly(Today + 1)
    /\ habit.timesPerWeek = << 1 >>
    /\ score > 0
    /\ currentStreak > 0

(***************************************************************************)
(* C13: calculateScoreHistory(completedDates, habit, days) returns exactly *)
(* days entries; entry k (from 0) carries the date of today minus          *)
(* days - 1 - k, so the dates are the days consecutive calendar days that  *)
(* end today, strictly ascending, each of them once.                       *)
(***************************************************************************)
C13_HistoryDates ==
    HistoryReturned =>
        /\ Len(scoreHistory) = days
        /\ \A k \in 1..Len(scoreHistory) :
               scoreHistory[k].date = TodayDay - (days - 1 - (k - 1))
        /\ \A j, k \in 1..Len(scoreHistory) :
               j < k => scoreHistory[j].date < scoreHistory[k].date
        /\ { scoreHistory[k].date : k \in 1..Len(scoreHistory) } = Window(days)

\* a window that holds an unscheduled day and runs across the clock change
C13_Witness ==
    /\ HistoryReturned
    /\ days = MaxLookback
    /\ tz.change # Absent
    /\ Len(scoreHistory) = MaxLookback
    /\ \E d \in Window(days) : ~Scheduled(d)
    /\ scoreHistory[1].date = TodayDay - MaxLookback + 1

(***************************************************************************)
(* C14: calculateCompletionRate(completedDates, habit, days) is the number *)
(* of scheduled and completed days divided by the number of scheduled days *)
(* in the window of today and the days - 1 days before it; it is 0 when    *)
(* the window holds no scheduled day; the result lies in [0,1].            *)
(***************************************************************************)
C14_ScheduledInWindow == { d \in Window(days) : Scheduled(d) }

C14_CompletedInWindow == { d \in C14_ScheduledInWindow : Completed(d) }

C14_RateIsRatio ==
    RateReturned =>
        /\ completionRate.den > 0
        /\ 0 <= completionRate.num
        /\ completionRate.num <= completionRate.den
        /\ IF C14_ScheduledInWindow = {}
           THEN completionRate.num = 0
           ELSE completionRate.num * Cardinality(C14_ScheduledInWindow)
                    = Cardinality(C14_CompletedInWindow) * completionRate.den

\* a rate strictly between 0 and 1 over a window that holds a completed day
\* that is not scheduled
C14_Witness ==
    /\ RateReturned
    /\ 0 < completionRate.num
    /\ completionRate.num < completionRate.den
    /\ \E d \in Window(days) : Completed(d) /\ ~Scheduled(d)

(***************************************************************************)
(* C15: calculateStreak terminates for every completion set and schedule,  *)
(* also when no day is ever scheduled or every day is completed, and its   *)
(* walk never examines a day more than 365 days before today.              *)
(***************************************************************************)
\* the loop variables of the walk the call made
C15_Walk == StreakWalk(completedDates, habit, now, tz)

\* the civil day the latest pass of the walk looked at
C15_LastExamined == LocalDay(C15_Walk.examined, tz)

C16_EmptyGivesZero ==
    completedDates = << >> =>
        /\ StreakReturned => currentStreak = 0
        /\ BestStreakReturned => bestStreak = 0
        /\ pc = "calculateCompletionRate" => total = 0
        /\ RateReturned => completionRate = Zero
        /\ pc = "done" => (currentStreak = 0 /\ bestStreak = 0 /\ total = 0
                           /\ completionRate = Zero)

\* every function has returned for an interval habit that has scheduled days
\* in the window and for one that has none
C16_Witness ==
    /\ pc = "done"
    /\ completedDates = << >>
    /\ habit.frequency = << "interval" >>
    /\ days = MaxLookback
    /\ C14_ScheduledInWindow # {}
    /\ C14_ScheduledInWindow # Window(days)

(***************************************************************************)
(* C17: for a daily habit with an empty completion set the score is 0      *)
(* after every day of the walk: every entry of calculateScoreHistory has   *)
(* score 0 and calculateHabitScore returns 0, for every window length.     *)
(***************************************************************************)
C17_NothingCompleted == habit.frequency = << "daily" >> /\ completedDates = << >>

C17_EmptyStaysZero ==
    C17_NothingCompleted =>
        /\ ScoreReturned => score = 0
        /\ HistoryReturned =>
               \A k \in 1..Len(scoreHistory) : scoreHistory[k].score = 0

\* the default window of 60 missed days
C17_Witness ==
    /\ HistoryReturned
    /\ C17_NothingCompleted
    /\ days = DEFAULT_DAYS_TO_ANALYZE
    /\ Len(scoreHistory) = DEFAULT_DAYS_TO_ANALYZE
    /\ score = 0

(***************************************************************************)
(* C18: every function of the engine is referentially transparent: two     *)
(* calls with identical arguments (completedDates, habit, window) return   *)
(* identical results whatever happened between the two calls, so a caller  *)
(* may cache a result keyed on those arguments alone.                      *)
(* Amended: the two calls return identical results when they are made on   *)
(* the same local calendar day; the functions read the current date from   *)
(* the clock of the environment.                                           *)
(***************************************************************************)
\* the second call has returned; the first result is the one the caller kept
C18_SecondCallReturned == pc = "done" /\ cached # << >>

C18_SameCivilDay == LocalDay(cached[1].now, tz) = LocalDay(now, tz)

C19_InputsNotMutated ==
    [][completedDates' = completedDates /\ habit' = habit]_vars

\* calculateStreak and calculateBestStreak, which sort, have returned for an
\* array that is neither ascending nor descending
C19_Witness ==
    /\ BestStreakReturned
    /\ completedDates \in UnsortedArrays
    /\ completedDates # SortCopy(completedDates)
    /\ completedDates # Reverse(SortCopy(completedDates))
    /\ bestStreak > 0

(***************************************************************************)
(* C20: the fields of the object getHabitStats(completedDates, habit)      *)
(* returns equal the results of the single functions called with their     *)
(* default windows: score is calculateHabitScore over 60 days,             *)
(* currentStreak is calculateStreak, bestStreak is calculateBestStreak,    *)
(* total is the number of completion dates, completionRate is              *)
(* calculateCompletionRate over 30 days and scoreHistory is                *)
(* calculateScoreHistory over 30 days, an array of 30 entries.             *)
(***************************************************************************)
C20_StatsReturned == pc = "done" /\ stats # << >>

C20_StatsAreDefaultCalls ==
    C20_StatsReturned =>
        /\ DOMAIN stats[1] = { "score", "currentStreak", "bestStreak", "total",
                               "completionRate", "scoreHistory" }
        /\ stats[1].score = calculateHabitScore(completedDates, habit, 60, now, tz)
        /\ stats[1].currentStreak = calculateStreak(completedDates, habit, now, tz)
        /\ stats[1].bestStreak = calculateBestStreak(completedDates, habit, now, tz)
        /\ stats[1].total = Len(completedDates)
        /\ stats[1].completionRate =
               calculateCompletionRate(completedDates, habit, 30, now, tz)
        /\ stats[1].scoreHistory =
               calculateScoreHistory(completedDates, habit, 30, now, tz)
        /\ Len(stats[1].scoreHistory) = 30

\* statistics of an array that holds a date twice, for a habit that skips days
C20_Witness ==
    /\ C20_StatsReturned
    /\ cached = << >>
    /\ completedDates = << Today, Today - 1, Today >>
    /\ stats[1].total = 3
    /\ stats[1].score > 0
    /\ stats[1].completionRate.num < stats[1].completionRate.den
    /\ habit.frequency = << "specific_days" >>

(***************************************************************************)
(* C21: a single scheduled day that is missed lowers the running score by  *)
(* at most 0.035, so a score above 0.035 stays strictly positive after one *)
(* miss; a completion on a scheduled day raises the score by at most       *)
(* 0.052.                                                                  *)
(***************************************************************************)
\* 0.035 and 0.052 in score units
C21_MaxDrop == (35 * MAX_SCORE) \div 1000
C21_MaxRise == (52 * MAX_SCORE) \div 1000

\* the running score before the day of entry k
C21_Before(k) == IF k = 1 THEN 0 ELSE scoreHistory[k - 1].score

C21_OneDayChange(before, after, d) ==
    /\ (Scheduled(d) /\ ~Completed(d)) =>
           /\ before - after <= C21_MaxDrop
           /\ after <= before
           /\ before > C21_MaxDrop => after > 0
    /\ (Scheduled(d) /\ Completed(d)) =>
           /\ after - before <= C21_MaxRise
           /\ after >= before

C21_BoundedDailyChange ==
    HistoryReturned =>
        /\ \A k \in 1..Len(scoreHistory) :
               C21_OneDayChange(C21_Before(k), scoreHistory[k].score,
                                scoreHistory[k].date)
        /\ days >= 1 => C21_OneDayChange(C21_Before(days), score, TodayDay)

\* today is the first miss after a run that took the score above one half
C21_Witness ==
    /\ HistoryReturned
    /\ days = DEFAULT_DAYS_TO_ANALYZE
    /\ ~Completed(TodayDay)
    /\ Scheduled(TodayDay)
    /\ C21_Before(days) > MAX_SCORE \div 2
    /\ score < C21_Before(days)
    /\ score > 0

(***************************************************************************)
(* C22: the score is monotone in the completion set: for a fixed habit,    *)
(* window and day of evaluation, a completion set that is a subset of the  *)
(* given one has a score that is not higher, and each entry of its score   *)
(* history is not higher than the entry of the same date; marking one more *)
(* day complete never lowers the score.                                    *)
(***************************************************************************)
\* the array without the date d
C22_Without(d) == SelectSeq(completedDates, LAMBDA x : x # d)

\* the arrays compared with the given one: every subset of a short array,
\* and a long array with one date of the window taken out
C22_SmallerArrays ==
    IF Len(completedDates) <= MaxAge + 1
    THEN { Descending(S) : S \in SUBSET SetOf(completedDates) }
    ELSE { C22_Without(d) : d \in SetOf(completedDates) \cap Window(days) }

C22_NotHigher(smaller) ==
    LET history == calculateScoreHistory(smaller, habit, days, now, tz)
    IN  /\ calculateHabitScore(smaller, habit, days, now, tz) <= score
        /\ Len(history) = Len(scoreHistory)
        /\ \A k \in 1..Len(history) :
               /\ history[k].date = scoreHistory[k].date
               /\ history[k].score <= scoreHistory[k].score

C22_MonotoneInCompletions ==
    HistoryReturned => \A smaller \in C22_SmallerArrays : C22_NotHigher(smaller)

\* taking one scheduled day out of the completions lowers the score strictly
C22_Witness ==
    /\ HistoryReturned
    /\ days = MaxLookback
    /\ habit.frequency = << "interval" >>
    /\ \E d \in SetOf(completedDates) :
          /\ Scheduled(d)
          /\ calculateHabitScore(C22_Without(d), habit, days, now, tz) < score
    /\ \E d \in SetOf(completedDates) \cap Window(days) : ~Scheduled(d)

(***************************************************************************)
(* The backend.  The Habit and Completion collections hold documents; a    *)
(* request is handled by the handler its route selects, and every await    *)
(* of a handler is a point where another request's step can run.           *)
(*  - A habit id, and the last segment of a request path, is a string.     *)
(*  - A completion document's _id is a number, fresh for every insert.     *)
(*  - A response is the status code with the message or error text and,    *)
(*    for toggle, the completed flag (<< >> when the body has none).       *)
(*  - The field existed of a request records, for the properties, whether  *)
(*    the completion it names was stored when the request arrived.         *)
(***************************************************************************)
\* the number of requests the backend receives
MaxRequests == 2

Users == { "u1", "u2" }
HabitIds == { "h1", "h2" }
Dates == { Today }

\* the habits stored when the requests start: one habit of each user
StoredHabits ==
    { [ id |-> "h1", user |-> "u1", order |-> 0 ],
      [ id |-> "h2", user |-> "u2", order |-> 0 ] }

\* the completions stored when the requests start
StoredCompletions ==
    { {}, { [ id |-> 0, user |-> "u1", habit |-> "h1", date |-> Today ] } }

\* Completion.js 40: the fields of the unique compound index
IndexKey(doc) == << doc.user, doc.habit, doc.date >>

\* variant: the collection has no unique index
UniqueIndexMissing(coll, doc) == FALSE

\* a write that would store two documents with one index key is rejected
ViolatesUniqueIndex(coll, doc) ==
    \E other \in coll : other.id # doc.id /\ IndexKey(other) = IndexKey(doc)

\* variant: the habit is looked up by its id alone
HabitFindOneOfAnyUser(coll, id, user) ==
    { h \in coll : h.id = id }

\* Model.findOne(filter): the matching documents, of which one is returned
HabitFindOne(coll, id, user) ==
    { h \in coll : h.id = id /\ h.user = user }

CompletionFindOne(coll, user, habitId, date) ==
    { c \in coll : c.user = user /\ c.habit = habitId /\ c.date = date }

\* the request bodies of PUT: an order, an array habitIds, or neither
PutBodies ==
    { [ order |-> << 5 >>, habitIds |-> << >> ],
      [ order |-> << >>, habitIds |-> << << "h2", "h1" >> >> ],
      [ order |-> << >>, habitIds |-> << >> ] }

NoBody == [ order |-> << >>, habitIds |-> << >> ]

\* a slot of the request table before its request arrives
Unsent ==
    [ kind |-> "none", user |-> "u1", habit |-> "h1", date |-> Today,
      body |-> NoBody, pc |-> "unsent", found |-> << >>, status |-> 0,
      message |-> "", completed |-> << >>, handler |-> "",
      existed |-> FALSE ]

Respond(r, status, message, completed) ==
    [ requests EXCEPT ![r].pc = "responded", ![r].status = status,
                      ![r].message = message, ![r].completed = completed ]

\* routes/habits.js: the routes with a path parameter or a fixed segment, in
\* the order of their registration
HabitRoutes ==
    << [ method |-> "PUT", segment |-> ":id", handler |-> "update" ],
       [ method |-> "DELETE", segment |-> ":id", handler |-> "delete" ],
       [ method |-> "PUT", segment |-> "reorder", handler |-> "reorder" ] >>

RouteMatches(route, method, segment) ==
    /\ route.method = method
    /\ (route.segment = ":id" \/ route.segment = segment)

\* express: the first registered route that matches handles the request
Dispatch(method, segment) ==
    LET hits == { i \in 1..Len(HabitRoutes) :
                      RouteMatches(HabitRoutes[i], method, segment) }
        first == CHOOSE i \in hits : \A j \in hits : i <= j
    IN  HabitRoutes[first].handler

\* the result of casting a path segment to the type of Habit._id
IsObjectId(segment) == segment \in HabitIds

InitServer ==
    /\ tz = Zone(0, Absent)
    /\ now = LocalInstant(Today, NowHour, tz)
    /\ completedDates = << >>
    /\ habit = DailyHabit
    /\ days = 0
    /\ pc = "server"
    /\ NothingReturned
    /\ habitsColl = StoredHabits
    /\ completionsColl \in StoredCompletions
    /\ requests = [ r \in 1..MaxRequests |-> Unsent ]
    /\ state = InitialState(now)
    /\ localDb = EmptyDb
    /\ calls = << >>
    /\ toast = ""

engine == << completedDates, habit, tz, now, days, pc, scheduledDays, score,
             currentStreak, bestStreak, total, completionRate, scoreHistory,
             stats, cached >>
client == << state, localDb, calls, toast >>

\* a request of the authenticated user arrives (middleware auth sets userId)
SendCompletionRequest(r) ==
    /\ pc = "server"
    /\ requests[r].pc = "unsent"
    /\ \A q \in 1..(r - 1) : requests[q].pc # "unsent"
    /\ \E kind \in { "toggle", "add", "deleteCompletion" }, u \in Users,
          h \in HabitIds, d \in Dates :
           requests' = [ requests EXCEPT ![r] =
               [ Unsent EXCEPT !.kind = kind, !.user = u, !.habit = h,
                               !.date = d, !.pc = "received",
                               !.existed =
                                   (CompletionFindOne(completionsColl, u, h, d) # {}) ] ]
    /\ UNCHANGED << engine, client, habitsColl, completionsColl >>

SendHabitRequest(r) ==
    /\ pc = "server"
    /\ requests[r].pc = "unsent"
    /\ \A q \in 1..(r - 1) : requests[q].pc # "unsent"
    /\ \/ \E u \in Users, h \in HabitIds :
              requests' = [ requests EXCEPT ![r] =
                  [ Unsent EXCEPT !.kind = "DELETE", !.user = u, !.habit = h,
                                  !.pc = "received" ] ]
       \/ \E u \in Users, segment \in HabitIds \cup { "reorder" },
             b \in PutBodies :
              requests' = [ requests EXCEPT ![r] =
                  [ Unsent EXCEPT !.kind = "PUT", !.user = u,
                                  !.habit = segment, !.body = b,
                                  !.pc = "received" ] ]
    /\ UNCHANGED << engine, client, habitsColl, completionsColl >>

\* POST /toggle, lines 69-82: the habit must belong to the user
ToggleFindHabit(r) ==
    /\ requests[r].kind = "toggle"
    /\ requests[r].pc = "received"
    /\ requests' =
           IF HabitFindOne(habitsColl, requests[r].habit, requests[r].user) = {}
           THEN Respond(r, 404, "Habit not found", << >>)
           ELSE [ requests EXCEPT ![r].pc = "findCompletion" ]
    /\ UNCHANGED << engine, client, habitsColl, completionsColl >>

\* lines 84-88: look for the completion
ToggleFindCompletion(r) ==
    /\ requests[r].kind = "toggle"
    /\ requests[r].pc = "findCompletion"
    /\ LET hits == CompletionFindOne(completionsColl, requests[r].user,
                                     requests[r].habit, requests[r].date)
       IN  \/ /\ hits = {}
              /\ requests' = [ requests EXCEPT ![r].pc = "flip" ]
           \/ \E doc \in hits :
                  requests' = [ requests EXCEPT ![r].pc = "flip",
                                                ![r].found = << doc >> ]
    /\ UNCHANGED << engine, client, habitsColl, completionsColl >>

\* lines 90-96: the document found is deleted by its _id
ToggleDelete(r) ==
    /\ requests[r].kind = "toggle"
    /\ requests[r].pc = "flip"
    /\ requests[r].found # << >>
    /\ completionsColl' =
           { c \in completionsColl : c.id # requests[r].found[1].id }
    /\ requests' = Respond(r, 200, "Completion removed", << FALSE >>)
    /\ UNCHANGED << engine, client, habitsColl >>

\* lines 97-113: a new document is saved; a duplicate key makes save throw
ToggleSave(r) ==
    /\ requests[r].kind = "toggle"
    /\ requests[r].pc = "flip"
    /\ requests[r].found = << >>
    /\ LET doc == [ id |-> r, user |-> requests[r].user,
                    habit |-> requests[r].habit, date |-> requests[r].date ]
       IN  IF ViolatesUniqueIndex(completionsColl, doc)
           THEN /\ requests' = Respond(r, 500, "Failed to toggle completion", << >>)
                /\ UNCHANGED completionsColl
           ELSE /\ completionsColl' = completionsColl \cup { doc }
                /\ requests' = Respond(r, 200, "Habit completed", << TRUE >>)
    /\ UNCHANGED << engine, client, habitsColl >>

\* POST /, lines 121-133
AddFindHabit(r) ==
    /\ requests[r].kind = "add"
    /\ requests[r].pc = "received"
    /\ requests' =
           IF HabitFindOne(habitsColl, requests[r].habit, requests[r].user) = {}
           THEN Respond(r, 404, "Habit not found", << >>)
           ELSE [ requests EXCEPT ![r].pc = "upsert" ]
    /\ UNCHANGED << engine, client, habitsColl, completionsColl >>

\* lines 136-151: findOneAndUpdate with upsert
AddUpsert(r) ==
    /\ requests[r].kind = "add"
    /\ requests[r].pc = "upsert"
    /\ LET hits == CompletionFindOne(completionsColl, requests[r].user,
                                     requests[r].habit, requests[r].date)
           doc == [ id |-> r, user |-> requests[r].user,
                    habit |-> requests[r].habit, date |-> requests[r].date ]
       IN  completionsColl' =
               IF hits = {} THEN completionsColl \cup { doc }
               ELSE completionsColl
    /\ requests' = Respond(r, 200, "Completion added", << >>)
    /\ UNCHANGED << engine, client, habitsColl >>

\* DELETE /, lines 161-179: findOneAndDelete
DeleteCompletion(r) ==
    /\ requests[r].kind = "deleteCompletion"
    /\ requests[r].pc = "received"
    /\ LET hits == CompletionFindOne(completionsColl, requests[r].user,
                                     requests[r].habit, requests[r].date)
       IN  \/ /\ hits = {}
              /\ UNCHANGED completionsColl
           \/ \E doc \in hits : completionsColl' = completionsColl \ { doc }
    /\ requests' = Respond(r, 200, "Completion removed", << >>)
    /\ UNCHANGED << engine, client, habitsColl >>

\* DELETE /api/habits/:id, lines 148-156: findOneAndDelete of the habit
DeleteHabitFind(r) ==
    /\ requests[r].kind = "DELETE"
    /\ requests[r].pc = "received"
    /\ Dispatch("DELETE", requests[r].habit) = "delete"
    /\ LET hits == HabitFindOne(habitsColl, requests[r].habit, requests[r].user)
       IN  IF hits = {}
           THEN /\ requests' = Respond(r, 404, "Habit not found", << >>)
                /\ UNCHANGED habitsColl
           ELSE /\ habitsColl' = habitsColl \ hits
                /\ requests' = [ requests EXCEPT ![r].pc = "deleteMany",
                                                 ![r].handler = "delete" ]
    /\ UNCHANGED << engine, client, completionsColl >>

\* lines 158-164: deleteMany of the habit's completions
DeleteHabitCompletions(r) ==
    /\ requests[r].kind = "DELETE"
    /\ requests[r].pc = "deleteMany"
    /\ completionsColl' =
           { c \in completionsColl :
                 ~(c.habit = requests[r].habit /\ c.user = requests[r].user) }
    /\ requests' = Respond(r, 200, "Habit deleted", << >>)
    /\ UNCHANGED << engine, client, habitsColl >>

\* the response when the path segment is no id of a habit: the query is
\* rejected (a cast error, caught: 500) or finds no habit (404)
NoSuchIdResponses ==
    { [ status |-> 500, message |-> "Failed to update habit" ],
      [ status |-> 404, message |-> "Habit not found" ] }

\* PUT /:id, lines 109-142
UpdateHabit(r) ==
    LET req == requests[r]
        hits == HabitFindOne(habitsColl, req.habit, req.user)
        set(h) == IF req.body.order # << >>
                  THEN [ h EXCEPT !.order = req.body.order[1] ] ELSE h
    IN  IF ~IsObjectId(req.habit)
        THEN /\ UNCHANGED habitsColl
             /\ \E resp \in NoSuchIdResponses :
                    requests' = [ Respond(r, resp.status, resp.message, << >>)
                                      EXCEPT ![r].handler = "update" ]
        ELSE IF hits = {}
        THEN /\ UNCHANGED habitsColl
             /\ requests' = [ Respond(r, 404, "Habit not found", << >>)
                                  EXCEPT ![r].handler = "update" ]
        ELSE /\ habitsColl' = (habitsColl \ hits) \cup { set(h) : h \in hits }
             /\ requests' = [ Respond(r, 200, "Habit updated", << >>)
                                  EXCEPT ![r].handler = "update" ]

\* PUT /reorder, lines 175-197
ReorderHabits(r) ==
    LET req == requests[r]
        ids == req.body.habitIds[1]
        listed(h) == \E i \in 1..Len(ids) : ids[i] = h.id
        index(h) == (CHOOSE i \in 1..Len(ids) :
                        ids[i] = h.id /\ \A j \in (i + 1)..Len(ids) : ids[j] # h.id) - 1
        set(h) == IF h.user = req.user /\ listed(h)
                  THEN [ h EXCEPT !.order = index(h) ] ELSE h
    IN  IF req.body.habitIds = << >>
        THEN /\ UNCHANGED habitsColl
             /\ requests' = [ Respond(r, 400, "habitIds must be an array", << >>)
                                  EXCEPT ![r].handler = "reorder" ]
        ELSE /\ habitsColl' = { set(h) : h \in habitsColl }
             /\ requests' = [ Respond(r, 200, "Habits reordered", << >>)
                                  EXCEPT ![r].handler = "reorder" ]

\* a PUT request on /api/habits/<segment> is handled by the route it matches
HandlePut(r) ==
    /\ requests[r].kind = "PUT"
    /\ requests[r].pc = "received"
    /\ IF Dispatch("PUT", requests[r].habit) = "update"
       THEN UpdateHabit(r)
       ELSE ReorderHabits(r)
    /\ UNCHANGED << engine, client, completionsColl >>

NextServer ==
    \E r \in 1..MaxRequests :
        \/ SendCompletionRequest(r)
        \/ SendHabitRequest(r)
        \/ ToggleFindHabit(r)
        \/ ToggleFindCompletion(r)
        \/ ToggleDelete(r)
        \/ ToggleSave(r)
        \/ AddFindHabit(r)
        \/ AddUpsert(r)
        \/ DeleteCompletion(r)
        \/ DeleteHabitFind(r)
        \/ DeleteHabitCompletions(r)
        \/ HandlePut(r)

SpecServer == InitServer /\ [][NextServer]_vars

(***************************************************************************)
(* Vocabulary of the properties of the backend.                            *)
(***************************************************************************)
Slots == 1..MaxRequests
Finished(r) == requests[r].pc = "responded"
InFlight(r) == requests[r].pc \notin { "unsent", "responded" }
SameKey(r1, r2) ==
    /\ requests[r1].user = requests[r2].user
    /\ requests[r1].habit = requests[r2].habit
    /\ requests[r1].date = requests[r2].date
Stored(u, h, d) == CompletionFindOne(completionsColl, u, h, d) # {}
\* the toggle request passed the ownership check
ToggleOfOwner(r) ==
    /\ requests[r].kind = "toggle"
    /\ Finished(r)
    /\ requests[r].status # 404
\* no request but r1 and r2 has arrived
OnlyRequests(r1, r2) ==
    \A q \in Slots \ { r1, r2 } : requests[q].pc = "unsent"

\* C23: two toggle requests of the owner on the same (user, habit, date),
\* however their find, delete and save steps interleave, both respond with
\* success, report opposite values of completed, and leave the completion
\* stored if and only if it was stored before the two.
C23_TwoTogglesFlipTwice ==
    \A r1, r2 \in Slots :
        (/\ r1 < r2
         /\ ToggleOfOwner(r1) /\ ToggleOfOwner(r2)
         /\ SameKey(r1, r2)
         /\ OnlyRequests(r1, r2))
        => /\ requests[r1].status = 200
           /\ requests[r2].status = 200
           /\ requests[r1].completed # requests[r2].completed
           /\ Stored(requests[r1].user, requests[r1].habit, requests[r1].date)
                  <=> requests[r1].existed

\* C24: once a DELETE /api/habits/:id request has succeeded and no request
\* is in flight any more, no stored completion refers to the deleted habit,
\* also when toggle or add requests for the habit ran beside the delete.
C24_DeletedHabitLeavesNoCompletion ==
    \A r \in Slots :
        (/\ requests[r].kind = "DELETE"
         /\ Finished(r)
         /\ requests[r].status = 200
         /\ \A q \in Slots : ~InFlight(q))
        => \A c \in completionsColl : c.habit # requests[r].habit

(***************************************************************************)
(* The local database (IndexedDB): the completions store has the unique    *)
(* index habitDate on [habitId, date] and auto-incremented keys.           *)
(***************************************************************************)
\* the number of calls of db.toggleCompletion
MaxLocalCalls == 3

LocalHabitIds == { 1, 2 }

\* the local database when the calls start: habits 1 and 2, no completion
StoredLocally == [ habits |-> LocalHabitIds, completions |-> {}, nextId |-> 1 ]

\* index.get([habitId, date]) on the index habitDate
HabitDateGet(db, habitId, date) ==
    { c \in db.completions : c.habitId = habitId /\ c.date = date }

\* store.add(record): rejected when the unique index habitDate has the key
StoreAdd(db, habitId, date) ==
    LET record == [ id |-> db.nextId, habitId |-> habitId, date |-> date ]
    IN  IF HabitDateGet(db, habitId, date) # {}
        THEN [ db |-> db, ok |-> FALSE ]
        ELSE [ db |-> [ db EXCEPT !.completions = @ \cup { record },
                                  !.nextId = @ + 1 ],
               ok |-> TRUE ]

\* db.toggleCompletion (app.js 1677-1703): get and delete or add run in one
\* readwrite transaction; the result is the new completion status, << >>
\* when the promise is rejected
DbToggleCompletion(db, habitId, date) ==
    LET hits == HabitDateGet(db, habitId, date)
        added == StoreAdd(db, habitId, date)
    IN  IF hits # {}
        THEN [ db |-> [ db EXCEPT !.completions =
                            { c \in @ : c.id # (CHOOSE h \in hits : TRUE).id } ],
               result |-> << FALSE >> ]
        ELSE IF added.ok
        THEN [ db |-> added.db, result |-> << TRUE >> ]
        ELSE [ db |-> db, result |-> << >> ]

\* the backend handles requests, or (pc = "local") db.toggleCompletion is
\* called on the local database
InitStores ==
    /\ tz = Zone(0, Absent)
    /\ now = LocalInstant(Today, NowHour, tz)
    /\ completedDates = << >>
    /\ habit = DailyHabit
    /\ days = 0
    /\ pc \in { "server", "local" }
    /\ NothingReturned
    /\ habitsColl = StoredHabits
    /\ completionsColl \in StoredCompletions
    /\ requests = [ r \in 1..MaxRequests |-> Unsent ]
    /\ state = InitialState(now)
    /\ localDb = StoredLocally
    /\ calls = << >>
    /\ toast = ""

CallDbToggleCompletion ==
    /\ pc = "local"
    /\ localDb.nextId <= MaxLocalCalls
    /\ \E h \in LocalHabitIds, d \in { Today - 1, Today } :
           localDb' = DbToggleCompletion(localDb, h, d).db
    /\ UNCHANGED << engine, habitsColl, completionsColl, requests, state,
                    calls, toast >>

NextStores ==
    \/ NextServer
    \/ CallDbToggleCompletion

SpecStores == InitStores /\ [][NextStores]_vars

\* C25: the Completion collection never holds two records with the same
\* (user, habit, date), whatever toggle, add and delete requests ran and
\* however they interleaved, and the local completions store never holds
\* two records with the same (habitId, date).
C25_OneCompletionPerKey ==
    /\ \A c1, c2 \in completionsColl :
           IndexKey(c1) = IndexKey(c2) => c1 = c2
    /\ \A c1, c2 \in localDb.completions :
           (c1.habitId = c2.habitId /\ c1.date = c2.date) => c1 = c2

\* two requests that both found no completion have both tried to store one,
\* and the local database was toggled on and off and on again
C25_Witness ==
    \/ \E r1, r2 \in Slots :
           /\ r1 # r2
           /\ SameKey(r1, r2)
           /\ requests[r1].kind \in { "toggle", "add" }
           /\ requests[r2].kind = "toggle"
           /\ requests[r1].status = 200
           /\ requests[r2].status = 500
           /\ Stored(requests[r1].user, requests[r1].habit, requests[r1].date)
    \/ /\ pc = "local"
       /\ localDb.completions # {}
       /\ localDb.nextId > Cardinality(localDb.completions) + 1

\* the owner of a habit (habits keep their user for life)
OwnerOf(h) == (CHOOSE x \in StoredHabits : x.id = h).user

\* the documents a step added to, removed from or changed in a collection
Touched(before, after) == (before \ after) \cup (after \ before)

C27_OwnRecordsOnly ==
    \A r \in Slots :
        requests'[r] # requests[r]
        => \A doc \in Touched(habitsColl, habitsColl')
                          \cup Touched(completionsColl, completionsColl') :
               doc.user = requests[r].user

C27_NotOwnedIs404 ==
    \A r \in Slots :
        (/\ requests[r].kind \in { "toggle", "add" }
         /\ Finished(r)
         /\ OwnerOf(requests[r].habit) # requests[r].user)
        => /\ requests[r].status = 404
           /\ \A c \in completionsColl : c.id # r

C27_CompletionOfOwner ==
    \A c \in completionsColl : c.user = OwnerOf(c.habit)

C29_ReorderIsHandledByReorder ==
    \A r \in Slots :
        (/\ requests[r].kind = "PUT"
         /\ requests[r].habit = "reorder"
         /\ Finished(r))
        => /\ requests[r].handler = "reorder"
           /\ IF requests[r].body.habitIds = << >>
              THEN requests[r].status = 400
              ELSE /\ requests[r].status = 200
                   /\ requests[r].message = "Habits reordered"
                   /\ OnlyRequests(r, r)
                      => LET ids == requests[r].body.habitIds[1]
                         IN  \A i \in 1..Len(ids) : \A h \in habitsColl :
                                 (h.id = ids[i] /\ h.user = requests[r].user)
                                 => h.order = i - 1

(***************************************************************************)
(* The client: the day shown.  state.currentDate is the instant the script *)
(* was loaded at, moved by whole days by the previous and next buttons.    *)
(* In this specification calls is the record of the navigateDate calls:    *)
(* the direction, the date shown before and after, and the clock reading.  *)
(***************************************************************************)
\* the number of navigateDate calls
MaxNavigations == 3

\* the local hours at which the script is loaded
LoadHours == { 0, NowHour }

\* utils.js 32-36: getToday()
getToday(nowT, z) == SetHoursZero(nowT, z)

\* app.js 824-834: navigateDate(direction), the new state.currentDate
navigateDate(currentDate, direction, nowT, z) ==
    LET newDate == AddDays(currentDate, direction, z)
    IN  IF newDate > getToday(nowT, z) THEN currentDate ELSE newDate

InitNavigate ==
    /\ tz \in TimeZones
    /\ \E hh \in LoadHours : now = LocalInstant(Today, hh, tz)
    /\ completedDates = << >>
    /\ habit = DailyHabit
    /\ days = 0
    /\ pc = "client"
    /\ NothingReturned
    /\ habitsColl = {}
    /\ completionsColl = {}
    /\ requests = << >>
    /\ state = InitialState(now)
    /\ localDb = EmptyDb
    /\ calls = << >>
    /\ toast = ""

\* a click on the previous (-1) or next (+1) button
NavigateDate ==
    /\ pc = "client"
    /\ Len(calls) < MaxNavigations
    /\ \E direction \in { 0 - 1, 1 } :
           LET shown == navigateDate(state.currentDate, direction, now, tz)
           IN  /\ state' = [ state EXCEPT !.currentDate = shown ]
               /\ calls' = Append(calls, [ direction |-> direction,
                                           before |-> state.currentDate,
                                           after |-> shown, now |-> now ])
    /\ UNCHANGED << completedDates, habit, tz, now, days, pc, scheduledDays,
                    score, currentStreak, bestStreak, total, completionRate,
                    scoreHistory, stats, cached, habitsColl, completionsColl,
                    requests, localDb, toast >>

\* the clock runs on while the page stays open
ClockRuns ==
    /\ pc = "client"
    /\ LocalDay(now, tz) <= Today
    /\ \E step \in ClockSteps : now' = now + step
    /\ UNCHANGED << completedDates, habit, tz, days, pc, scheduledDays,
                    score, currentStreak, bestStreak, total, completionRate,
                    scoreHistory, stats, cached, app >>

NextNavigate ==
    \/ NavigateDate
    \/ ClockRuns

SpecNavigate == InitNavigate /\ [][NextNavigate]_vars

\* C28: a step forward is refused exactly when the day after the one shown
\* is after today; the day shown is never after today; a step forward from
\* a day before today shows the next day, so that a step back followed by a
\* step forward shows the day shown before.
C28_ForwardRefusedOnlyPastToday ==
    /\ LocalDay(state.currentDate, tz) <= LocalDay(now, tz)
    /\ \A k \in 1..Len(calls) :
           calls[k].direction = 1
           => /\ (calls[k].after = calls[k].before)
                     <=> (LocalDay(calls[k].before, tz) + 1
                              > LocalDay(calls[k].now, tz))
              /\ LocalDay(calls[k].before, tz) < LocalDay(calls[k].now, tz)
                     => LocalDay(calls[k].after, tz)
                            = LocalDay(calls[k].before, tz) + 1
    /\ \A k \in 1..(Len(calls) - 1) :
           (calls[k].direction = 0 - 1 /\ calls[k + 1].direction = 1)
           => LocalDay(calls[k + 1].after, tz) = LocalDay(calls[k].before, tz)

(***************************************************************************)
(* The client: completions.  A click on a week button or a calendar day    *)
(* starts a call that awaits api.toggleCompletion (backend mode) or        *)
(* db.toggleCompletion (local mode) and then updates state.completions.    *)
(* In this specification calls[c] is the c-th such call; in backend mode   *)
(* its request is requests[c].  state.completions is a function from the   *)
(* habit ids that are keys of the object to the arrays of dates.           *)
(***************************************************************************)
\* the user who is logged in on the client
ClientUser == "u1"

\* a call that has not been started
Idle == [ pc |-> "idle", date |-> Today ]

\* state.completions[habitId], << >> when the key is missing
CompletionsOf(st, h) ==
    IF h \in DOMAIN st.completions THEN st.completions[h] ELSE << >>

Includes(array, d) == \E i \in 1..Len(array) : array[i] = d

\* app.js 783-804, 1112-1120: the update of state.completions after the
\* await, with the new completion status the store reported
UpdateLocalState(st, h, d, isNowCompleted) ==
    LET old == CompletionsOf(st, h)
        new == IF isNowCompleted
               THEN IF Includes(old, d) THEN old ELSE Append(old, d)
               ELSE SelectSeq(old, LAMBDA x : x # d)
    IN  [ st EXCEPT !.completions =
              [ x \in DOMAIN st.completions \cup { h } |->
                    IF x = h THEN new ELSE st.completions[x] ] ]

\* app.js 249-269: loadHabitsFromBackend and loadHabitsFromLocal
DatesOf(records) ==
    LET RECURSIVE List(_)
        List(S) == IF S = {} THEN << >>
                   ELSE LET d == CHOOSE x \in S : \A y \in S : x <= y
                        IN  << d >> \o List(S \ { d })
    IN  List({ c.date : c \in records })

loadHabitsFromBackend(st, habitDocs, completionDocs) ==
    LET mine == { h.id : h \in { x \in habitDocs : x.user = ClientUser } }
    IN  [ st EXCEPT !.habits = mine,
                    !.completions =
                        [ h \in mine |->
                              DatesOf({ c \in completionDocs :
                                  c.user = ClientUser /\ c.habit = h }) ] ]

loadHabitsFromLocal(st, db) ==
    [ st EXCEPT !.habits = db.habits,
                !.completions =
                    [ h \in db.habits |->
                          DatesOf({ c \in db.completions : c.habitId = h }) ] ]

\* the local database when the page is loaded: one habit, completed today
\* or not
LoadedLocally ==
    { [ habits |-> { 1 }, completions |-> {}, nextId |-> 1 ],
      [ habits |-> { 1 },
        completions |-> { [ id |-> 1, habitId |-> 1, date |-> Today ] },
        nextId |-> 2 ] }

\* app.js 150-175: init() chooses the mode and loads the habits
InitClient ==
    /\ tz = Zone(0, Absent)
    /\ now = LocalInstant(Today, NowHour, tz)
    /\ completedDates = << >>
    /\ habit = DailyHabit
    /\ days = 0
    /\ pc = "client"
    /\ NothingReturned
    /\ habitsColl = StoredHabits
    /\ completionsColl \in StoredCompletions
    /\ localDb \in LoadedLocally
    /\ requests = [ r \in 1..MaxRequests |-> Unsent ]
    /\ calls = [ c \in 1..MaxRequests |-> Idle ]
    /\ \E useBackend \in BOOLEAN :
           LET st == [ InitialState(now) EXCEPT !.useBackend = useBackend ]
           IN  state = IF useBackend
                       THEN loadHabitsFromBackend(st, habitsColl, completionsColl)
                       ELSE loadHabitsFromLocal(st, localDb)
    /\ toast = ""

\* a click on a day of a habit that is shown; in backend mode the request
\* POST /completions/toggle is sent (api.js 228-234)
ClickDay(c) ==
    /\ pc = "client"
    /\ calls[c].pc = "idle"
    /\ \A q \in 1..(c - 1) : calls[q].pc # "idle"
    /\ \E h \in state.habits, d \in Dates :
           /\ calls' = [ calls EXCEPT ![c] = [ pc |-> "awaiting", date |-> d ] ]
           /\ IF state.useBackend
              THEN requests' = [ requests EXCEPT ![c] =
                       [ Unsent EXCEPT !.kind = "toggle", !.user = ClientUser,
                                       !.habit = h, !.date = d,
                                       !.pc = "received",
                                       !.existed = (CompletionFindOne(
                                           completionsColl, ClientUser, h, d) # {}) ] ]
              ELSE UNCHANGED requests
    /\ UNCHANGED << engine, habitsColl, completionsColl, state, localDb, toast >>

\* backend mode: the response has arrived and the call continues after its
\* await; a response that is not ok makes api.request throw (api.js 80-87)
HandleResponse(c) ==
    /\ state.useBackend
    /\ calls[c].pc = "awaiting"
    /\ requests[c].pc = "responded"
    /\ calls' = [ calls EXCEPT ![c].pc = "done" ]
    /\ IF requests[c].status = 200
       THEN /\ state' = UpdateLocalState(state, requests[c].habit,
                            calls[c].date, requests[c].completed[1])
            /\ UNCHANGED toast
       ELSE /\ toast' = "Failed to update habit"
            /\ UNCHANGED state
    /\ UNCHANGED << engine, habitsColl, completionsColl, requests, localDb >>

\* local mode: the transactions on the completions store run in the order
\* of their creation; the call continues when its request has succeeded
DbToggleResolves(c) ==
    /\ ~state.useBackend
    /\ calls[c].pc = "awaiting"
    /\ \A q \in 1..(c - 1) : calls[q].pc # "awaiting"
    /\ LET res == DbToggleCompletion(localDb, 1, calls[c].date)
       IN  /\ localDb' = res.db
           /\ IF res.result # << >>
              THEN /\ state' = UpdateLocalState(state, 1, calls[c].date,
                                                res.result[1])
                   /\ UNCHANGED toast
              ELSE /\ toast' = "Failed to update habit"
                   /\ UNCHANGED state
    /\ calls' = [ calls EXCEPT ![c].pc = "done" ]
    /\ UNCHANGED << engine, habitsColl, completionsColl, requests >>

\* db.clearAllData (app.js 1975-1986)
clearAllData(db) == [ db EXCEPT !.habits = {}, !.completions = {} ]

\* app.js 1347-1371: the user confirms 'Clear All Data'; in local mode the
\* clearing transaction runs after the transactions created before it
ConfirmClearData ==
    /\ pc = "client"
    /\ state.useBackend \/ \A c \in 1..MaxRequests : calls[c].pc # "awaiting"
    /\ localDb' = IF ~state.useBackend THEN clearAllData(localDb) ELSE localDb
    /\ state' = [ state EXCEPT !.habits = {}, !.completions = << >> ]
    /\ toast' = "All data cleared"
    /\ UNCHANGED << engine, habitsColl, completionsColl, requests, calls >>

\* the habits and completions are loaded again from the store in use
Reload ==
    /\ pc = "client"
    /\ \A c \in 1..MaxRequests : calls[c].pc # "awaiting"
    /\ state' = IF state.useBackend
                THEN loadHabitsFromBackend(state, habitsColl, completionsColl)
                ELSE loadHabitsFromLocal(state, localDb)
    /\ UNCHANGED << engine, habitsColl, completionsColl, requests, localDb,
                    calls, toast >>

NextClient ==
    \/ \E c \in 1..MaxRequests :
           \/ ClickDay(c)
           \/ ToggleFindHabit(c)
           \/ ToggleFindCompletion(c)
           \/ ToggleDelete(c)
           \/ ToggleSave(c)
           \/ HandleResponse(c)
           \/ DbToggleResolves(c)
    \/ ConfirmClearData
    \/ Reload

SpecClient == InitClient /\ [][NextClient]_vars

\* the store in use holds a completion of the client's habit h on day d
StoreHolds(h, d) ==
    IF state.useBackend
    THEN Stored(ClientUser, h, d)
    ELSE HabitDateGet(localDb, h, d) # {}

NoToggleInFlight == \A c \in 1..MaxRequests : calls[c].pc # "awaiting"

\* C26: whenever no toggle call is in flight, for every habit shown the
\* array state.completions[habitId] holds a date if and only if the store
\* holds the completion, and holds it at most once, also after a second
\* click made before the first response was handled.
C26_StateMirrorsStore ==
    NoToggleInFlight
    => \A h \in state.habits : \A d \in Dates :
           /\ Includes(CompletionsOf(state, h), d) <=> StoreHolds(h, d)
           /\ Cardinality({ i \in 1..Len(CompletionsOf(state, h)) :
                                CompletionsOf(state, h)[i] = d }) <= 1

\* the habits a reload would show: those the store in use holds for the user
HabitsInStore ==
    IF state.useBackend
    THEN loadHabitsFromBackend(state, habitsColl, completionsColl).habits
    ELSE loadHabitsFromLocal(state, localDb).habits

CompletionsInStore ==
    IF state.useBackend
    THEN { c \in completionsColl : c.user = ClientUser }
    ELSE localDb.completions

\* C30: once 'All data cleared' is reported, the store in use (the local
\* database in local mode, the backend in backend mode) holds no habit and
\* no completion of the user, so that loading the habits again shows none.
C30_ClearedStoreIsEmpty ==
    toast = "All data cleared"
    => /\ HabitsInStore = {}
       /\ CompletionsInStore = {}

====
